---- MODULE Spec2Model ----
(***************************************************************************)
(* Model of openlego.core.xml_component.XMLComponent: the parameter        *)
(* registries filled from XML templates, the cached collision resolution   *)
(* (output rename maps), setup() declaring the slots to the host           *)
(* framework, and the routing of result documents into those slots.        *)
(*                                                                         *)
(* Python values are modelled as records:                                  *)
(*   a parameter name (str) is a sequence of tokens, so that               *)
(*       name + '___out'  is  name \o <<"___out">>;                        *)
(*   a template value is [kind, num, text] with kind "float", "ndarray"    *)
(*       or "str";                                                         *)
(*   an ordered dict is a sequence of <<key, value>> pairs with distinct   *)
(*       keys (iteration order = insertion order);                         *)
(*   a plain dict used only for lookup is a function;                      *)
(*   an attribute that may be absent is a sequence of length 0 or 1.       *)
(***************************************************************************)
EXTENDS Integers, Sequences, FiniteSets, TLC

VARIABLES
    inputs_from_xml,    \* self.inputs_from_xml   (ordered dict name -> value)
    outputs_from_xml,   \* self.outputs_from_xml  (ordered dict name -> value)
    cache,              \* instance __dict__ entries written by cached_property
    pc,                 \* lifecycle position of the component
    raised,             \* exception raised by the last operation, or "none"
    declared,           \* the add_* calls setup() made to the host, in order
    inputs,             \* host slots: continuous inputs
    discrete_inputs,    \* host slots: discrete inputs
    outputs,            \* host slots: continuous outputs
    discrete_outputs,   \* host slots: discrete outputs
    last_read,          \* arguments of the last read phase (document, container given)
    partials_from_xml,  \* self.partials_from_xml (ordered dict of -> wrt xpaths)
    declared_partials,  \* the declare_partials calls setup() made, in order
    partials,           \* host slots: (of, wrt) -> sensitivity
    keep_files,         \* self.keep_files
    base_file,          \* whether self.base_file is not None
    execute_fast,       \* whether self.discipline has execute_fast
    now,                \* the wall clock read by datetime.now()
    disk,               \* the files that exist in data_folder
    trace,              \* collaborator calls of the last evaluation, in order
    generated,          \* values returned by generate_file_names(), in order
    evaluations,        \* number of compute / compute_partials calls so far
    group,              \* subsystems added to the group by the last call
    indep_args          \* arguments of the last xml_params_as_indep_vars call

component_vars == <<inputs_from_xml, outputs_from_xml, partials_from_xml, cache, pc, raised>>

host_vars == <<declared, declared_partials, inputs, discrete_inputs, outputs,
               discrete_outputs, partials, last_read>>

option_vars == <<keep_files, base_file, execute_fast>>

file_vars == <<now, disk, trace, generated, evaluations>>

indep_vars == <<group, indep_args>>

vars == <<component_vars, host_vars, option_vars, file_vars, indep_vars>>

(***************************************************************************)
(* Python values                                                           *)
(***************************************************************************)
Float(n) == [kind |-> "float", num |-> <<n>>, text |-> ""]

NdArray(a) == [kind |-> "ndarray", num |-> a, text |-> ""]

Str(s) == [kind |-> "str", num |-> <<>>, text |-> s]

\* Parameter names that occur in the templates.
Names == {<<"x">>, <<"y">>}

\* Template values: zero and non-zero scalars, an array whose mean differs
\* from every scalar, and a non-numeric value.
Values == {Float(0), Float(2), NdArray(<<1, 5>>), Str("s")}

\* Values an external tool writes into a result document.
ResultValues == {Float(7), Str("r")}

\* openlego.utils.general_utils.is_float: numeric scalar or array.
is_float(value) == value.kind \in {"float", "ndarray"}

RECURSIVE Sum(_)
Sum(a) == IF a = <<>> THEN 0 ELSE Head(a) + Sum(Tail(a))

\* numpy.ndarray.mean(); the arrays of Values have an integral mean.
Mean(a) == Sum(a) \div Len(a)

\* openlego.utils.xml_utils.xpath_to_param / param_to_xpath: a bijection
\* between XPaths and parameter names.
param_to_xpath(name) == <<"/">> \o name

\* (a string that is no XPath, such as a parameter name, is left as it is)
xpath_to_param(xpath) == IF xpath # <<>> /\ Head(xpath) = "/" THEN Tail(xpath) ELSE xpath

(***************************************************************************)
(* Ordered dicts                                                           *)
(***************************************************************************)
Keys(d) == {d[i][1] : i \in 1..Len(d)}

Get(d, k) == d[CHOOSE i \in 1..Len(d) : d[i][1] = k][2]

\* dict.update({k: v}): overwrite in place, or append as the newest key.
Update(d, k, v) ==
    IF k \in Keys(d)
    THEN [i \in 1..Len(d) |-> IF d[i][1] = k THEN <<k, v>> ELSE d[i]]
    ELSE Append(d, <<k, v>>)

\* All ordered dicts over the given keys and values with at most two entries.
OrderedDicts(K, V) ==
    {<<>>}
    \cup {<<<<k, v>>>> : k \in K, v \in V}
    \cup {d \in {<<<<k1, v1>>, <<k2, v2>>>> : k1 \in K, k2 \in K, v1 \in V, v2 \in V} :
             d[1][1] # d[2][1]}

\* xml_to_dict(template): the XML templates a component is built from.
Xpaths == {param_to_xpath(n) : n \in Names}

TemplateDocs == OrderedDicts(Xpaths, Values)

\* set_inputs_from_xml / set_outputs_from_xml after the clear(): one
\* update per element of the document.
RECURSIVE registry_from_xml(_, _)
registry_from_xml(doc, acc) ==
    IF doc = <<>> THEN acc
    ELSE registry_from_xml(Tail(doc),
                           Update(acc, xpath_to_param(Head(doc)[1]), Head(doc)[2]))

(***************************************************************************)
(* Collision resolution (cached properties)                                *)
(***************************************************************************)
NotCached == <<>>

Cached(v) == <<v>>

IsCached(c) == Len(c) = 1

\* XMLComponent._input_names: (input_names, discrete_input_names).
RECURSIVE input_names_loop(_, _, _)
input_names_loop(ins, cont, disc) ==
    IF ins = <<>> THEN <<cont, disc>>
    ELSE LET name == Head(ins)[1]
             value == Head(ins)[2]
         IN IF ~is_float(value)
            THEN input_names_loop(Tail(ins), cont, disc \cup {name})
            ELSE input_names_loop(Tail(ins), cont \cup {name}, disc)

compute_input_names(ins) == input_names_loop(ins, {}, {})

\* The reference value computed for a continuous output.
RefOf(value) ==
    LET ref == IF value.kind = "ndarray" THEN Mean(value.num) ELSE value.num[1]
    IN IF ref = 0 THEN 1 ELSE ref

Renamed(name) == name \o <<"___out">>

EmptyMap == <<>>

\* The tuple (renamed, value, ref) stored in output_rename_map.
RenameEntry(name, value) == <<Renamed(name), value, RefOf(value)>>

\* Mutant: the kind of the colliding input is not looked at.
output_rename_step_ignoring_kind(name, value, input_names, discrete_input_names, acc) ==
    IF is_float(value) /\ name \in input_names \cup discrete_input_names
    THEN [exc |-> "none", val |-> (name :> RenameEntry(name, value)) @@ acc]
    ELSE [exc |-> "none", val |-> acc]

\* One iteration of the loop of XMLComponent.output_rename_map; the result
\* is [exc |-> "none", val |-> map] or [exc |-> "RuntimeError", ...].
output_rename_step(name, value, input_names, discrete_input_names, acc) ==
    IF is_float(value)
    THEN IF name \in discrete_input_names
         THEN [exc |-> "RuntimeError", val |-> EmptyMap]
         ELSE IF name \in input_names
         THEN [exc |-> "none", val |-> (name :> RenameEntry(name, value)) @@ acc]
         ELSE [exc |-> "none", val |-> acc]
    ELSE [exc |-> "none", val |-> acc]

\* Body of XMLComponent.output_rename_map.
RECURSIVE output_rename_loop(_, _, _, _)
output_rename_loop(outs, input_names, discrete_input_names, acc) ==
    IF outs = <<>> THEN [exc |-> "none", val |-> acc]
    ELSE LET r == output_rename_step(Head(outs)[1], Head(outs)[2],
                                     input_names, discrete_input_names, acc)
         IN IF r.exc # "none" THEN r
            ELSE output_rename_loop(Tail(outs), input_names, discrete_input_names, r.val)

\* Mutant: a discrete output colliding with a continuous input is skipped
\* instead of raising.
discrete_output_rename_step_no_raise(name, value, input_names, discrete_input_names, acc) ==
    IF ~is_float(value) /\ name \in discrete_input_names
    THEN [exc |-> "none", val |-> (name :> <<Renamed(name), value>>) @@ acc]
    ELSE [exc |-> "none", val |-> acc]

\* One iteration of the loop of XMLComponent.discrete_output_rename_map;
\* entries are the tuples (renamed, value).
discrete_output_rename_step(name, value, input_names, discrete_input_names, acc) ==
    IF ~is_float(value)
    THEN IF name \in input_names
         THEN [exc |-> "RuntimeError", val |-> EmptyMap]
         ELSE IF name \in discrete_input_names
         THEN [exc |-> "none", val |-> (name :> <<Renamed(name), value>>) @@ acc]
         ELSE [exc |-> "none", val |-> acc]
    ELSE [exc |-> "none", val |-> acc]

\* Body of XMLComponent.discrete_output_rename_map.
RECURSIVE discrete_output_rename_loop(_, _, _, _)
discrete_output_rename_loop(outs, input_names, discrete_input_names, acc) ==
    IF outs = <<>> THEN [exc |-> "none", val |-> acc]
    ELSE LET r == discrete_output_rename_step(Head(outs)[1], Head(outs)[2],
                                              input_names, discrete_input_names, acc)
         IN IF r.exc # "none" THEN r
            ELSE discrete_output_rename_loop(Tail(outs), input_names,
                                             discrete_input_names, r.val)

\* cached_property: return the value stored on the instance, or run the
\* getter and store its result.  Each Get* yields the cache after the access
\* and the value (or the exception) the access produced.
GetInputNames(c) ==
    IF IsCached(c.input_names)
    THEN [cache |-> c, exc |-> "none", val |-> c.input_names[1]]
    ELSE LET v == compute_input_names(inputs_from_xml)
         IN [cache |-> [c EXCEPT !.input_names = Cached(v)], exc |-> "none", val |-> v]

GetOutputRenameMap(c) ==
    IF IsCached(c.output_rename_map)
    THEN [cache |-> c, exc |-> "none", val |-> c.output_rename_map[1]]
    ELSE LET n == GetInputNames(c)
             r == output_rename_loop(outputs_from_xml, n.val[1], n.val[2], EmptyMap)
         IN IF r.exc = "none"
            THEN [cache |-> [n.cache EXCEPT !.output_rename_map = Cached(r.val)],
                  exc |-> "none", val |-> r.val]
            ELSE [cache |-> n.cache, exc |-> r.exc, val |-> EmptyMap]

GetDiscreteOutputRenameMap(c) ==
    IF IsCached(c.discrete_output_rename_map)
    THEN [cache |-> c, exc |-> "none", val |-> c.discrete_output_rename_map[1]]
    ELSE LET n == GetInputNames(c)
             r == discrete_output_rename_loop(outputs_from_xml, n.val[1], n.val[2], EmptyMap)
         IN IF r.exc = "none"
            THEN [cache |-> [n.cache EXCEPT !.discrete_output_rename_map = Cached(r.val)],
                  exc |-> "none", val |-> r.val]
            ELSE [cache |-> n.cache, exc |-> r.exc, val |-> EmptyMap]

(***************************************************************************)
(* setup(): declarations made to the host framework                        *)
(***************************************************************************)
NoValue == [kind |-> "None", num |-> <<>>, text |-> ""]

\* The object passed as a variable name: a str, or the tuple (str, value).
PyStr(name) == [py |-> "str", s |-> name, v |-> NoValue]

PyTuple(t) == [py |-> "tuple", s |-> t[1], v |-> t[2]]

NoRef == <<>>

AddCall(fn, key, value, ref) == [fn |-> fn, name |-> key, val |-> value, ref |-> ref]

\* First loop of setup(): one add_input / add_discrete_input per input.
RECURSIVE setup_inputs_loop(_, _)
setup_inputs_loop(ins, calls) ==
    IF ins = <<>> THEN calls
    ELSE LET name == Head(ins)[1]
             value == Head(ins)[2]
         IN IF ~is_float(value)
            THEN setup_inputs_loop(Tail(ins),
                     Append(calls, AddCall("add_discrete_input", PyStr(name), value, NoRef)))
            ELSE setup_inputs_loop(Tail(ins),
                     Append(calls, AddCall("add_input", PyStr(name), value, NoRef)))

\* The name setup() passes to add_discrete_output.
DiscreteOutputKey(name, discrete_output_rename_map) ==
    IF name \in DOMAIN discrete_output_rename_map
    THEN PyTuple(discrete_output_rename_map[name])
    ELSE PyStr(name)

\* The name setup() passes to add_output.
OutputKey(name, output_rename_map) ==
    IF name \in DOMAIN output_rename_map
    THEN PyStr(output_rename_map[name][1])
    ELSE PyStr(name)

\* Second loop of setup(): one add_output / add_discrete_output per output.
RECURSIVE setup_outputs_loop(_, _, _, _)
setup_outputs_loop(outs, output_rename_map, discrete_output_rename_map, calls) ==
    IF outs = <<>> THEN calls
    ELSE LET name == Head(outs)[1]
             value == Head(outs)[2]
         IN IF ~is_float(value)
            THEN setup_outputs_loop(Tail(outs), output_rename_map, discrete_output_rename_map,
                     Append(calls, AddCall("add_discrete_output",
                                           DiscreteOutputKey(name, discrete_output_rename_map),
                                           value, NoRef)))
            ELSE setup_outputs_loop(Tail(outs), output_rename_map, discrete_output_rename_map,
                     Append(calls, AddCall("add_output", OutputKey(name, output_rename_map),
                                           value, <<RefOf(value)>>)))

\* [xpath_to_param(_wrt) for _wrt in wrt.keys()]
RECURSIVE wrt_params(_)
wrt_params(s) == IF s = <<>> THEN <<>> ELSE <<xpath_to_param(Head(s))>> \o wrt_params(Tail(s))

\* Third part of setup(): the declare_partials calls.
RECURSIVE setup_partials_loop(_, _, _)
setup_partials_loop(parts, output_rename_map, calls) ==
    IF parts = <<>> THEN calls
    ELSE LET out_param == xpath_to_param(Head(parts)[1])
             of == IF out_param \in DOMAIN output_rename_map
                   THEN output_rename_map[out_param][1] ELSE out_param
         IN setup_partials_loop(Tail(parts), output_rename_map,
                Append(calls, [of |-> of, wrt |-> wrt_params(Head(parts)[2]),
                               method |-> "exact"]))

setup_partials(calls, output_rename_map) ==
    LET has_cont_input == \E i \in 1..Len(calls) : calls[i].fn = "add_input"
        has_cont_output == \E i \in 1..Len(calls) : calls[i].fn = "add_output"
    IN IF has_cont_input /\ has_cont_output
       THEN IF partials_from_xml # <<>>
            THEN setup_partials_loop(partials_from_xml, output_rename_map, <<>>)
            ELSE <<[of |-> <<"*">>, wrt |-> <<<<"*">>>>, method |-> "fd"]>>
       ELSE <<>>

\* The host's slot containers after the calls: name object -> value.
Slots(calls, fn) ==
    LET idx == {i \in 1..Len(calls) : calls[i].fn = fn}
    IN [k \in {calls[i].name : i \in idx} |->
           calls[CHOOSE i \in idx : calls[i].name = k /\ \A j \in idx :
                                       calls[j].name = k => j <= i].val]

\* Position of the first call whose name is not a str (0 if there is none).
FirstBadName(calls) ==
    IF \E i \in 1..Len(calls) : calls[i].name.py # "str"
    THEN CHOOSE i \in 1..Len(calls) :
             /\ calls[i].name.py # "str"
             /\ \A j \in 1..(i - 1) : calls[j].name.py = "str"
    ELSE 0

\* The host's partials container: one zero-initialised slot per declared
\* (of, wrt) pair; '*' stands for every continuous output, resp. input.
PartialSlots(decls, calls) ==
    LET all_of == {calls[i].name.s : i \in {j \in 1..Len(calls) : calls[j].fn = "add_output"}}
        all_wrt == {calls[i].name.s : i \in {j \in 1..Len(calls) : calls[j].fn = "add_input"}}
        pairs(d) == {<<of, wrt>> : of \in (IF d.of = <<"*">> THEN all_of ELSE {d.of}),
                                   wrt \in (IF d.wrt = <<<<"*">>>> THEN all_wrt
                                            ELSE {d.wrt[i] : i \in 1..Len(d.wrt)})}
    IN [k \in UNION {pairs(decls[i]) : i \in 1..Len(decls)} |-> Float(0)]

SetupFails(c, exc, calls) ==
    /\ cache' = c
    /\ raised' = exc
    /\ pc' = "failed"
    /\ declared' = calls
    /\ declared_partials' = <<>>
    /\ UNCHANGED <<inputs, discrete_inputs, outputs, discrete_outputs, partials>>

SetupCompletes(c, calls, output_rename_map) ==
    /\ cache' = c
    /\ raised' = "none"
    /\ pc' = "ready"
    /\ declared' = calls
    /\ declared_partials' = setup_partials(calls, output_rename_map)
    /\ partials' = PartialSlots(setup_partials(calls, output_rename_map), calls)
    /\ inputs' = Slots(calls, "add_input")
    /\ discrete_inputs' = Slots(calls, "add_discrete_input")
    /\ outputs' = Slots(calls, "add_output")
    /\ discrete_outputs' = Slots(calls, "add_discrete_output")

\* XMLComponent.setup(), called once by the host.  A host that validates
\* variable names rejects a name that is not a str with a TypeError; one
\* that does not stores the slot under the object it was given.
Setup ==
    /\ pc = "config"
    /\ LET in_calls == setup_inputs_loop(inputs_from_xml, <<>>)
           o == GetOutputRenameMap(cache)
           d == GetDiscreteOutputRenameMap(o.cache)
           calls == setup_outputs_loop(outputs_from_xml, o.val, d.val, in_calls)
           bad == FirstBadName(calls)
       IN IF o.exc # "none" THEN SetupFails(o.cache, o.exc, in_calls)
          ELSE IF d.exc # "none" THEN SetupFails(d.cache, d.exc, in_calls)
          ELSE IF bad = 0 THEN SetupCompletes(d.cache, calls, o.val)
          ELSE \/ SetupCompletes(d.cache, calls, o.val)
               \/ SetupFails(d.cache, "TypeError", SubSeq(calls, 1, bad - 1))
    /\ UNCHANGED <<inputs_from_xml, outputs_from_xml, partials_from_xml, last_read>>
    /\ UNCHANGED <<option_vars, file_vars, indep_vars>>

(***************************************************************************)
(* Read phase: routing a result document into the output slots             *)
(***************************************************************************)
Names_undeclared == {<<"z">>}

\* xml_to_dict(result): documents an external tool may write.
ResultDocs ==
    OrderedDicts({param_to_xpath(n) : n \in Names \cup Names_undeclared}, ResultValues)

\* The tool writes a number for a numeric output and text for any other.
WellTyped(doc) ==
    \A i \in 1..Len(doc) :
        LET name == xpath_to_param(doc[i][1])
        IN name \in Keys(outputs_from_xml)
               => is_float(doc[i][2]) = is_float(Get(outputs_from_xml, name))

\* The slot name the read phase looks up for a result entry.
ReadName(name, output_rename_map, discrete_output_rename_map) ==
    IF name \in DOMAIN output_rename_map
    THEN output_rename_map[name][1]
    ELSE IF name \in DOMAIN discrete_output_rename_map
    THEN discrete_output_rename_map[name][1]
    ELSE name

\* The loop of read_outputs_file() (and of the fast path of compute()):
\* slots is <<outputs, discrete_outputs>>.
RECURSIVE read_outputs_loop(_, _, _, _, _)
read_outputs_loop(doc, output_rename_map, discrete_output_rename_map, has_discrete, slots) ==
    IF doc = <<>> THEN slots
    ELSE LET name == xpath_to_param(Head(doc)[1])
             value == Head(doc)[2]
             key == PyStr(ReadName(name, output_rename_map, discrete_output_rename_map))
             next == IF name \in Keys(outputs_from_xml)
                     THEN IF key \in DOMAIN slots[1]
                          THEN <<[slots[1] EXCEPT ![key] = value], slots[2]>>
                          ELSE IF has_discrete /\ key \in DOMAIN slots[2]
                          THEN <<slots[1], [slots[2] EXCEPT ![key] = value]>>
                          ELSE slots
                     ELSE slots
         IN read_outputs_loop(Tail(doc), output_rename_map, discrete_output_rename_map,
                              has_discrete, next)

\* read_outputs_file(file, outputs, discrete_outputs) on the parsed
\* document: the cache and the slots after the call, or the exception.
read_outputs_file(doc, has_discrete) ==
    LET o == GetOutputRenameMap(cache)
        d == GetDiscreteOutputRenameMap(o.cache)
        slots == read_outputs_loop(doc, o.val, d.val, has_discrete,
                                   <<outputs, discrete_outputs>>)
    IN IF o.exc # "none"
       THEN [exc |-> o.exc, cache |-> o.cache, outputs |-> outputs,
             discrete_outputs |-> discrete_outputs]
       ELSE IF d.exc # "none"
       THEN [exc |-> d.exc, cache |-> d.cache, outputs |-> outputs,
             discrete_outputs |-> discrete_outputs]
       ELSE [exc |-> "none", cache |-> d.cache, outputs |-> slots[1],
             discrete_outputs |-> slots[2]]

\* XMLComponent.read_outputs_file(file, outputs, discrete_outputs).
ReadOutputsFile ==
    /\ pc = "ready"
    /\ \E doc \in ResultDocs, has_discrete \in BOOLEAN :
          /\ WellTyped(doc)
          /\ LET r == read_outputs_file(doc, has_discrete)
             IN /\ cache' = r.cache
                /\ raised' = r.exc
                /\ outputs' = r.outputs
                /\ discrete_outputs' = r.discrete_outputs
          /\ last_read' = [doc |-> doc, has_discrete |-> has_discrete]
    /\ pc' = "evaluated"
    /\ UNCHANGED <<inputs_from_xml, outputs_from_xml, partials_from_xml, declared,
                   declared_partials, inputs, discrete_inputs, partials>>
    /\ UNCHANGED <<option_vars, file_vars, indep_vars>>

(***************************************************************************)
(* Accesses of the cached properties outside setup()                       *)
(***************************************************************************)
Access(r) ==
    /\ pc = "config"
    /\ cache' = r.cache
    /\ raised' = r.exc
    /\ UNCHANGED <<inputs_from_xml, outputs_from_xml, partials_from_xml, pc>>
    /\ UNCHANGED <<host_vars, option_vars, file_vars, indep_vars>>

ReadInputNames == Access(GetInputNames(cache))

ReadOutputRenameMap == Access(GetOutputRenameMap(cache))

ReadDiscreteOutputRenameMap == Access(GetDiscreteOutputRenameMap(cache))

(***************************************************************************)
(* Construction and the specification of one configured component          *)
(***************************************************************************)
EmptyCache ==
    [input_names |-> NotCached, output_rename_map |-> NotCached,
     discrete_output_rename_map |-> NotCached]

\* Partials(partials_xml).get_partials(): of-XPath -> wrt-XPaths.
PartialsSpecs == {<<>>, <<<<param_to_xpath(<<"x">>), <<param_to_xpath(<<"y">>)>>>>>>}

\* The first instant of the modelled clock.
Epoch == [second |-> 0, microsecond |-> 0]

\* The world around a new component: nothing declared to the host, an
\* empty data folder, no group filled.
Untouched ==
    /\ declared = <<>>
    /\ declared_partials = <<>>
    /\ inputs = EmptyMap
    /\ discrete_inputs = EmptyMap
    /\ outputs = EmptyMap
    /\ discrete_outputs = EmptyMap
    /\ partials = EmptyMap
    /\ last_read = [doc |-> <<>>, has_discrete |-> TRUE]
    /\ now = Epoch
    /\ disk = {}
    /\ trace = <<>>
    /\ generated = <<>>
    /\ evaluations = 0
    /\ group = <<>>
    /\ indep_args = [called |-> FALSE, params |-> <<>>, values |-> <<>>,
                     aliases_given |-> FALSE, aliases |-> <<>>]

\* The defaults of __init__: keep_files=False, base_file=None; a plain
\* discipline has no execute_fast.
DefaultOptions ==
    /\ keep_files = FALSE
    /\ base_file = FALSE
    /\ execute_fast = FALSE

\* XMLComponent.__init__(input_xml, output_xml, partials_xml).
Constructed(input_xml, output_xml, partials_spec) ==
    /\ inputs_from_xml = registry_from_xml(input_xml, <<>>)
    /\ outputs_from_xml = registry_from_xml(output_xml, <<>>)
    /\ partials_from_xml = partials_spec
    /\ cache = EmptyCache
    /\ pc = "config"
    /\ raised = "none"
    /\ Untouched

Init ==
    /\ \E input_xml \in TemplateDocs, output_xml \in TemplateDocs,
          partials_spec \in PartialsSpecs :
           Constructed(input_xml, output_xml, partials_spec)
    /\ DefaultOptions

Next ==
    \/ ReadInputNames
    \/ ReadOutputRenameMap
    \/ ReadDiscreteOutputRenameMap
    \/ Setup
    \/ ReadOutputsFile

Spec == Init /\ [][Next]_vars

(***************************************************************************)
(* Re-population of the registries                                         *)
(***************************************************************************)
\* Templates handed to set_inputs_from_xml / set_outputs_from_xml after
\* construction.
ResetDocs == {doc \in TemplateDocs : \A i \in 1..Len(doc) : doc[i][1] = param_to_xpath(<<"x">>)}

Configure ==
    /\ UNCHANGED <<partials_from_xml, cache, pc>>
    /\ UNCHANGED <<host_vars, option_vars, file_vars, indep_vars>>

\* XMLComponent.set_inputs_from_xml(input_xml).
SetInputsFromXml ==
    /\ \E input_xml \in ResetDocs : inputs_from_xml' = registry_from_xml(input_xml, <<>>)
    /\ raised' = "none"
    /\ UNCHANGED outputs_from_xml
    /\ Configure

\* XMLComponent.set_outputs_from_xml(output_xml).
SetOutputsFromXml ==
    /\ \E output_xml \in ResetDocs : outputs_from_xml' = registry_from_xml(output_xml, <<>>)
    /\ raised' = "none"
    /\ UNCHANGED inputs_from_xml
    /\ Configure

\* XMLComponent() without templates.
InitBare == Constructed(<<>>, <<>>, <<>>) /\ DefaultOptions

NextCache ==
    \/ SetInputsFromXml
    \/ SetOutputsFromXml
    \/ ReadInputNames
    \/ ReadOutputRenameMap
    \/ ReadDiscreteOutputRenameMap

\* A component whose registries are re-populated between accesses of the
\* cached properties.
SpecCache == InitBare /\ [][NextCache]_vars

(***************************************************************************)
(* xml_params_as_indep_vars(group, params, values, aliases)                *)
(***************************************************************************)
MaxParams == 2

SeqsUpTo(S, n) == UNION {[1..k -> S] : k \in 0..n}

\* Promoted names a caller may give.
AliasNames == {<<"A">>, <<"B">>}

\* The condition of the first if: `or` and `and` evaluate left to right,
\* and len(aliases) is evaluated exactly when aliases is None.
length_check(params, values, aliases_given, aliases) ==
    IF Len(params) # Len(values) THEN "ValueError"
    ELSE IF ~aliases_given THEN "TypeError"
    ELSE "none"

\* The first loop: every param must be a key of inputs_from_xml.
params_check(params) ==
    IF \E i \in 1..Len(params) : params[i] \notin Keys(inputs_from_xml)
    THEN "ValueError" ELSE "none"

\* 'INDEP_' + param_to_xpath(param).split('/')[-1].split('[')[0]
default_alias(param) ==
    LET xpath == param_to_xpath(param) IN <<"INDEP_", xpath[Len(xpath)]>>

\* The second loop: one group.add per param, in order.
RECURSIVE indep_loop(_, _, _, _, _, _)
indep_loop(params, values, aliases_given, aliases, index, added) ==
    IF index > Len(params) THEN [exc |-> "none", group |-> added]
    ELSE IF aliases_given /\ index > Len(aliases)
    THEN [exc |-> "IndexError", group |-> added]
    ELSE LET alias == IF ~aliases_given THEN default_alias(params[index])
                      ELSE aliases[index]
         IN indep_loop(params, values, aliases_given, aliases, index + 1,
                       Append(added, [alias |-> alias, val |-> values[index]]))

xml_params_as_indep_vars(params, values, aliases_given, aliases) ==
    LET lengths == length_check(params, values, aliases_given, aliases)
        known == params_check(params)
    IN IF lengths # "none" THEN [exc |-> lengths, group |-> <<>>]
       ELSE IF known # "none" THEN [exc |-> known, group |-> <<>>]
       ELSE indep_loop(params, values, aliases_given, aliases, 1, <<>>)

\* XMLComponent.xml_params_as_indep_vars on a new, empty group (one call is
\* followed per component).
XmlParamsAsIndepVars ==
    /\ ~indep_args.called
    /\ \E params \in SeqsUpTo(Names \cup Names_undeclared, MaxParams),
          values \in SeqsUpTo({Float(1)}, MaxParams),
          aliases_given \in BOOLEAN,
          aliases \in SeqsUpTo(AliasNames, MaxParams) :
           /\ (~aliases_given => aliases = <<>>)
           /\ LET r == xml_params_as_indep_vars(params, values, aliases_given, aliases)
              IN /\ raised' = r.exc
                 /\ group' = r.group
           /\ indep_args' = [called |-> TRUE, params |-> params, values |-> values,
                             aliases_given |-> aliases_given, aliases |-> aliases]
    /\ UNCHANGED <<inputs_from_xml, outputs_from_xml, partials_from_xml, cache, pc>>
    /\ UNCHANGED <<host_vars, option_vars, file_vars>>

InitIndep ==
    /\ \E input_xml \in TemplateDocs : Constructed(input_xml, <<>>, <<>>)
    /\ DefaultOptions

NextIndep == XmlParamsAsIndepVars

\* A component whose inputs are made independent variables of a group.
SpecIndep == InitIndep /\ [][NextIndep]_vars

(***************************************************************************)
(* Evaluation: file names, the write phase, compute and compute_partials   *)
(***************************************************************************)
MaxTick == 1

MaxEvals == 2

\* Readings of datetime.now() within one hour of one day.
Instants == [second : 0..MaxTick, microsecond : 0..MaxTick]

Earlier(a, b) ==
    \/ a.second < b.second
    \/ a.second = b.second /\ a.microsecond < b.microsecond

\* The format given to strftime: '%Y%m%d%H%M%f'.
SaltFormat == <<"Y", "m", "d", "H", "M", "f">>

\* One directive of strftime; year, month, day, hour and minute are the
\* same for all Instants.
Field(t, directive) ==
    CASE directive = "S" -> t.second
      [] directive = "f" -> t.microsecond
      [] OTHER -> 0

\* datetime.strftime: the fields named by the format, each of fixed width.
strftime(t, format) == [i \in 1..Len(format) |-> Field(t, format[i])]

\* os.path.join(self.data_folder, self.name + '_<kind>_%s.xml' % salt)
FileName(kind, salt) == [kind |-> kind, salt |-> salt]

\* generate_file_names(): (input_xml, output_xml, partials_xml).
generate_file_names(t) ==
    LET salt == strftime(t, SaltFormat)
    IN <<FileName("in", salt), FileName("out", salt), FileName("partials", salt)>>

\* io.BytesIO() buffers and self.base_file.
InputBuffer == FileName("BytesIO_in", <<>>)

OutputBuffer == FileName("BytesIO_out", <<>>)

BaseFile == FileName("base", <<>>)

NoFile == FileName("", <<>>)

\* One call to a collaborator.
Ev(op, src, dst, doc) == [op |-> op, src |-> src, dst |-> dst, doc |-> doc]

\* The host passes the discrete containers exactly when the component
\* declared a discrete variable; compute_partials never receives them.
HostGivesDiscrete == DOMAIN discrete_inputs # {} \/ DOMAIN discrete_outputs # {}

\* The loop over self.inputs_from_xml shared by write_input_file and the
\* fast path: the (xpath, value) pairs collected, or the TypeError of
\* `param in None`.
RECURSIVE input_values_loop(_, _, _)
input_values_loop(ins, has_discrete, doc) ==
    IF ins = <<>> THEN [exc |-> "none", doc |-> doc]
    ELSE LET param == Head(ins)[1]
         IN IF PyStr(param) \in DOMAIN inputs
            THEN input_values_loop(Tail(ins), has_discrete,
                     Append(doc, <<param_to_xpath(param), inputs[PyStr(param)]>>))
            ELSE IF ~has_discrete THEN [exc |-> "TypeError", doc |-> doc]
            ELSE IF PyStr(param) \in DOMAIN discrete_inputs
            THEN input_values_loop(Tail(ins), has_discrete,
                     Append(doc, <<param_to_xpath(param), discrete_inputs[PyStr(param)]>>))
            ELSE input_values_loop(Tail(ins), has_discrete, doc)

\* write_input_file(file, inputs, discrete_inputs): the document written,
\* or the exception raised before anything is written.
write_input_file(has_discrete) ==
    IF inputs_from_xml = <<>> THEN [exc |-> "IndexError", doc |-> <<>>]
    ELSE input_values_loop(inputs_from_xml, has_discrete, <<>>)

\* The result document of execute / execute_fast: a value for every
\* registered output.
tool_result ==
    [i \in 1..Len(outputs_from_xml) |->
        <<param_to_xpath(outputs_from_xml[i][1]),
          IF is_float(outputs_from_xml[i][2]) THEN Float(7) ELSE Str("r")>>]

\* The partials document of linearize: a sensitivity for every pair of
\* the partials specification.
tool_partials ==
    [i \in 1..Len(partials_from_xml) |->
        <<partials_from_xml[i][1],
          [j \in 1..Len(partials_from_xml[i][2]) |-> <<partials_from_xml[i][2][j], Float(3)>>]>>]

\* os.remove(path)
os_remove(files, path) ==
    IF path \in files THEN [exc |-> "none", disk |-> files \ {path}]
    ELSE [exc |-> "OSError", disk |-> files]

\* A cleanup that leaves the file in place.
remove_skipped(files, path) == files

\* try: os.remove(path) / except OSError: pass
remove_ignoring_oserror(files, path) == os_remove(files, path).disk

Evaluates ==
    /\ pc \in {"ready", "evaluated"}
    /\ evaluations < MaxEvals
    /\ evaluations' = evaluations + 1
    /\ pc' = "evaluated"
    /\ UNCHANGED <<inputs_from_xml, outputs_from_xml, partials_from_xml>>
    /\ UNCHANGED <<declared, declared_partials, inputs, discrete_inputs>>
    /\ UNCHANGED <<option_vars, indep_vars, now>>

\* The end of compute(): the results routed into the slots.
Routed(r, doc) ==
    /\ cache' = r.cache
    /\ raised' = r.exc
    /\ outputs' = r.outputs
    /\ discrete_outputs' = r.discrete_outputs
    /\ last_read' = [doc |-> doc, has_discrete |-> HostGivesDiscrete]
    /\ UNCHANGED partials

NotRouted(exc) ==
    /\ raised' = exc
    /\ UNCHANGED <<cache, outputs, discrete_outputs, last_read, partials>>

\* compute(), first branch: the discipline offers execute_fast.
ComputeFast ==
    /\ execute_fast
    /\ Evaluates
    /\ UNCHANGED <<disk, generated>>
    /\ LET w == input_values_loop(inputs_from_xml, HostGivesDiscrete, <<>>)
       IN IF w.exc # "none"
          THEN trace' = <<>> /\ NotRouted(w.exc)
          ELSE /\ trace' = <<Ev("execute_fast", NoFile, NoFile, w.doc),
                             Ev("route_outputs", NoFile, NoFile, tool_result)>>
               /\ Routed(read_outputs_file(tool_result, HostGivesDiscrete), tool_result)

\* The calls compute() makes around execute() in its two file branches.
WritePhase(input_xml, doc) ==
    IF inputs_from_xml # <<>>
    THEN <<Ev("write_input_file", NoFile, input_xml, doc)>>
         \o (IF base_file THEN <<Ev("xml_merge", input_xml, BaseFile, doc)>> ELSE <<>>)
    ELSE <<>>

InvokePhase(input_xml, output_xml) ==
    <<Ev("execute", IF base_file THEN BaseFile ELSE input_xml, output_xml, tool_result)>>

ReadPhase(output_xml) ==
    (IF base_file THEN <<Ev("xml_merge", output_xml, BaseFile, tool_result)>> ELSE <<>>)
    \o (IF outputs_from_xml # <<>>
        THEN <<Ev("read_outputs_file", output_xml, NoFile, tool_result)>> ELSE <<>>)

ComputeWithFiles(input_xml, output_xml, on_disk) ==
    LET w == IF inputs_from_xml # <<>> THEN write_input_file(HostGivesDiscrete)
             ELSE [exc |-> "none", doc |-> <<>>]
        written == IF on_disk /\ inputs_from_xml # <<>> THEN {input_xml} ELSE {}
        produced == IF on_disk THEN {output_xml} ELSE {}
    IN IF w.exc # "none"
       THEN trace' = <<>> /\ disk' = disk /\ NotRouted(w.exc)
       ELSE /\ trace' = WritePhase(input_xml, w.doc) \o InvokePhase(input_xml, output_xml)
                         \o ReadPhase(output_xml)
            /\ disk' = disk \cup written \cup produced
            /\ IF outputs_from_xml # <<>>
               THEN Routed(read_outputs_file(tool_result, HostGivesDiscrete), tool_result)
               ELSE NotRouted("none")

\* compute(), second branch: keep_files is False, io.BytesIO buffers.
ComputeInMemory ==
    /\ ~execute_fast
    /\ ~keep_files
    /\ Evaluates
    /\ UNCHANGED generated
    /\ ComputeWithFiles(InputBuffer, OutputBuffer, FALSE)

\* compute(), third branch: keep_files is True, named files.
ComputeKeepFiles ==
    /\ ~execute_fast
    /\ keep_files
    /\ Evaluates
    /\ LET names == generate_file_names(now)
       IN /\ generated' = Append(generated, [at |-> now, names |-> names])
          /\ ComputeWithFiles(names[1], names[2], TRUE)

\* The inner loop of read_partials_file for one `of` entry.  A write into
\* a slot of `fails` raises; the handler then evaluates e.message, which
\* the exception has or lacks (has_message).  `failed` lists the slots
\* whose write raised.
RECURSIVE read_partials_wrts(_, _, _, _, _, _, _)
read_partials_wrts(of, wrts, output_rename_map, fails, has_message, slots, failed) ==
    IF wrts = <<>> THEN [exc |-> "none", partials |-> slots, failed |-> failed]
    ELSE LET of_param == xpath_to_param(of)
             of_name == IF of_param \in DOMAIN output_rename_map
                        THEN output_rename_map[of_param][1] ELSE of_param
             wrt == xpath_to_param(Head(wrts)[1])
             val == Head(wrts)[2]
             key == <<of_name, wrt>>
         IN IF key \in DOMAIN slots
            THEN IF key \in fails
                 THEN IF has_message
                      THEN read_partials_wrts(of_name, Tail(wrts), output_rename_map,
                                              fails, has_message, slots,
                                              Append(failed, key))
                      ELSE [exc |-> "AttributeError", partials |-> slots,
                            failed |-> Append(failed, key)]
                 ELSE read_partials_wrts(of_name, Tail(wrts), output_rename_map,
                                         fails, has_message, [slots EXCEPT ![key] = val],
                                         failed)
            ELSE read_partials_wrts(of_name, Tail(wrts), output_rename_map,
                                    fails, has_message, slots, failed)

\* The outer loop of read_partials_file.
RECURSIVE read_partials_loop(_, _, _, _, _, _)
read_partials_loop(doc, output_rename_map, fails, has_message, slots, failed) ==
    IF doc = <<>> THEN [exc |-> "none", partials |-> slots, failed |-> failed]
    ELSE LET r == read_partials_wrts(Head(doc)[1], Head(doc)[2], output_rename_map,
                                     fails, has_message, slots, failed)
         IN IF r.exc # "none" THEN r
            ELSE read_partials_loop(Tail(doc), output_rename_map, fails, has_message,
                                    r.partials, r.failed)

\* read_partials_file(file, partials) on the parsed document.
read_partials_file(doc, fails, has_message) ==
    LET o == GetOutputRenameMap(cache)
        r == read_partials_loop(doc, o.val, fails, has_message, partials, <<>>)
    IN IF o.exc # "none"
       THEN [exc |-> o.exc, cache |-> o.cache, partials |-> partials, failed |-> <<>>]
       ELSE [exc |-> r.exc, cache |-> o.cache, partials |-> r.partials,
             failed |-> r.failed]

PartialsEvaluates ==
    /\ pc \in {"ready", "evaluated"}
    /\ evaluations < MaxEvals
    /\ evaluations' = evaluations + 1
    /\ pc' = "evaluated"
    /\ UNCHANGED <<inputs_from_xml, outputs_from_xml, partials_from_xml>>
    /\ UNCHANGED <<declared, declared_partials, inputs, discrete_inputs, outputs,
                   discrete_outputs, last_read>>
    /\ UNCHANGED <<option_vars, indep_vars, now>>

\* compute_partials(inputs, partials).  The external linearize writes the
\* partials file and may consume (delete) the input file it was given.
ComputePartials ==
    /\ PartialsEvaluates
    /\ IF partials_from_xml = <<>>
       THEN /\ raised' = "none"
            /\ trace' = <<>>
            /\ UNCHANGED <<cache, partials, disk, generated>>
       ELSE LET names == generate_file_names(now)
                input_xml == names[1]
                partials_xml == names[3]
                w == write_input_file(FALSE)
            IN /\ generated' = Append(generated, [at |-> now, names |-> names])
               /\ IF w.exc # "none"
                  THEN /\ raised' = w.exc
                       /\ trace' = <<Ev("write_input_file_raises", NoFile, input_xml, w.doc)>>
                       /\ UNCHANGED <<cache, partials, disk>>
                  ELSE \E consumed \in BOOLEAN, has_message \in BOOLEAN,
                          fails \in SUBSET DOMAIN partials :
                          LET written == disk \cup {input_xml}
                              linearized == (IF consumed THEN written \ {input_xml}
                                             ELSE written) \cup {partials_xml}
                              cleaned == IF ~keep_files
                                         THEN remove_ignoring_oserror(linearized, input_xml)
                                         ELSE linearized
                              r == read_partials_file(tool_partials, fails, has_message)
                          IN /\ trace' = <<Ev("write_input_file", NoFile, input_xml, w.doc),
                                           Ev("linearize", input_xml, partials_xml,
                                              tool_partials)>>
                                          \o (IF consumed
                                              THEN <<Ev("tool_removes", input_xml, NoFile, <<>>)>>
                                              ELSE <<>>)
                                          \o <<Ev("read_partials_file", partials_xml, NoFile,
                                                  tool_partials)>>
                                          \o (IF r.failed # <<>>
                                              THEN <<Ev("partials_write_raises", partials_xml,
                                                        NoFile, r.failed)>>
                                              ELSE <<>>)
                             /\ cache' = r.cache
                             /\ partials' = r.partials
                             /\ raised' = r.exc
                             /\ disk' = IF r.exc = "none" /\ ~keep_files
                                        THEN remove_ignoring_oserror(cleaned, partials_xml)
                                        ELSE cleaned

\* The wall clock advances; instants after the last evaluation are not
\* observed.
Tick ==
    /\ evaluations < MaxEvals
    /\ \E t \in Instants : Earlier(now, t) /\ now' = t
    /\ UNCHANGED <<component_vars, host_vars, option_vars, indep_vars>>
    /\ UNCHANGED <<disk, trace, generated, evaluations>>

\* Templates and options of the evaluated components.
EvalValues == {Float(2), Str("s")}

EvalInputDocs == {doc \in OrderedDicts(Xpaths, EvalValues) : Len(doc) <= 1}

EvalOutputDocs == {doc \in OrderedDicts({param_to_xpath(<<"x">>)}, EvalValues) : Len(doc) <= 1}

InitFiles ==
    /\ \E input_xml \in EvalInputDocs, output_xml \in EvalOutputDocs,
          partials_spec \in PartialsSpecs :
           Constructed(input_xml, output_xml, partials_spec)
    /\ keep_files \in BOOLEAN
    /\ base_file \in BOOLEAN
    /\ execute_fast \in BOOLEAN

NextFiles ==
    \/ Setup
    \/ ComputeFast
    \/ ComputeInMemory
    \/ ComputeKeepFiles
    \/ ComputePartials
    \/ Tick

\* A component that is set up and then evaluated.
SpecFiles == InitFiles /\ [][NextFiles]_vars

\* A partials specification with two (of, wrt) pairs.
PartialsSpecWide ==
    <<<<param_to_xpath(<<"x">>), <<param_to_xpath(<<"y">>), param_to_xpath(<<"x">>)>>>>>>

InitPartials ==
    /\ \E input_xml \in OrderedDicts(Xpaths, EvalValues), output_xml \in EvalOutputDocs,
          partials_spec \in PartialsSpecs \cup {PartialsSpecWide} :
           Constructed(input_xml, output_xml, partials_spec)
    /\ keep_files \in BOOLEAN
    /\ base_file = FALSE
    /\ execute_fast = FALSE

NextPartials ==
    \/ Setup
    \/ ComputePartials

\* A component that is set up and then differentiated.
SpecPartials == InitPartials /\ [][NextPartials]_vars

\* Parameter names of which one already ends in the rename suffix.
SuffixedNames == {<<"x">>, Renamed(<<"x">>)}

SuffixedDocs == OrderedDicts({param_to_xpath(n) : n \in SuffixedNames}, EvalValues)

InitSuffixed ==
    /\ \E input_xml \in SuffixedDocs, output_xml \in SuffixedDocs :
           Constructed(input_xml, output_xml, <<>>)
    /\ DefaultOptions

NextSuffixed == Setup

\* A component whose templates hold names ending in "___out".
SpecSuffixed == InitSuffixed /\ [][NextSuffixed]_vars

(***************************************************************************)
(* Properties of collision resolution and setup()                          *)
(***************************************************************************)
Shared == Keys(inputs_from_xml) \cap Keys(outputs_from_xml)

ContinuousInBoth ==
    {n \in Shared : is_float(Get(inputs_from_xml, n)) /\ is_float(Get(outputs_from_xml, n))}

DiscreteInBoth ==
    {n \in Shared : ~is_float(Get(inputs_from_xml, n)) /\ ~is_float(Get(outputs_from_xml, n))}

Mismatched ==
    {n \in Shared : is_float(Get(inputs_from_xml, n)) # is_float(Get(outputs_from_xml, n))}

\* The normalization reference taken from the input template of a name.
InputRef(n) ==
    LET v == Get(inputs_from_xml, n)
        m == IF v.kind = "ndarray" THEN Mean(v.num) ELSE v.num[1]
    IN IF m = 0 THEN 1 ELSE m

\* The add_output / add_discrete_output call setup() made for output name n.
OutputCall(n) ==
    declared[Len(inputs_from_xml)
             + (CHOOSE i \in 1..Len(outputs_from_xml) : outputs_from_xml[i][1] = n)]

SetupCompleted == pc \in {"ready", "evaluated"}

\* C1: for every name continuous in both registries, the reference stored
\* in output_rename_map[name] and the ref passed to add_output by setup()
\* is the input template's value (its mean for an array), or 1 when that
\* value is 0.
C1_RefFromInputTemplate ==
    /\ IsCached(cache.output_rename_map) =>
           \A n \in ContinuousInBoth :
               /\ n \in DOMAIN cache.output_rename_map[1]
               /\ cache.output_rename_map[1][n][3] = InputRef(n)
    /\ SetupCompleted =>
           \A n \in ContinuousInBoth : OutputCall(n).ref = <<InputRef(n)>>

\* C2: output_rename_map holds exactly the names continuous in both
\* registries, discrete_output_rename_map exactly the names discrete in
\* both, each renamed to name + "___out"; a name without a collision is in
\* neither map.
C2_RenameMapsHoldExactlyCollisions ==
    /\ IsCached(cache.output_rename_map) =>
           LET m == cache.output_rename_map[1]
           IN /\ DOMAIN m = ContinuousInBoth
              /\ \A n \in DOMAIN m : m[n][1] = n \o <<"___out">>
    /\ IsCached(cache.discrete_output_rename_map) =>
           LET m == cache.discrete_output_rename_map[1]
           IN /\ DOMAIN m = DiscreteInBoth
              /\ \A n \in DOMAIN m : m[n][1] = n \o <<"___out">>

\* C2 witness: both maps were computed, one holding a continuous and the
\* other a discrete collision.
C2_Witness ==
    /\ IsCached(cache.output_rename_map)
    /\ IsCached(cache.discrete_output_rename_map)
    /\ DOMAIN cache.output_rename_map[1] = {<<"x">>}
    /\ DOMAIN cache.discrete_output_rename_map[1] = {<<"y">>}

\* C2 witness for the disjoint case: names on both sides, none shared, both
\* maps computed and empty.
C2_WitnessDisjoint ==
    /\ IsCached(cache.output_rename_map)
    /\ IsCached(cache.discrete_output_rename_map)
    /\ Keys(inputs_from_xml) = {<<"x">>}
    /\ Keys(outputs_from_xml) = {<<"y">>}

\* C3: when a name is continuous on one side and discrete on the other,
\* setup() fails with a RuntimeError, whatever the order of the entries
\* and whatever other collisions exist, and no rename entry is ever
\* produced for that name.
C3_TypeMismatchFailsSetup ==
    Mismatched # {} =>
        /\ ~SetupCompleted
        /\ pc = "failed" => raised = "RuntimeError"
        /\ \A n \in Mismatched :
               /\ IsCached(cache.output_rename_map)
                      => n \notin DOMAIN cache.output_rename_map[1]
               /\ IsCached(cache.discrete_output_rename_map)
                      => n \notin DOMAIN cache.discrete_output_rename_map[1]

\* C3 witness: setup() failed on a mismatched name although another name
\* is a same-kind collision whose rename entry was produced.
C3_Witness ==
    /\ pc = "failed"
    /\ raised = "RuntimeError"
    /\ Mismatched # {}
    /\ IsCached(cache.output_rename_map)
    /\ DOMAIN cache.output_rename_map[1] # {}

\* The collision resolution of the current registries.
CurrentInputNames == compute_input_names(inputs_from_xml)

CurrentOutputRenameMap ==
    output_rename_loop(outputs_from_xml, CurrentInputNames[1], CurrentInputNames[2], EmptyMap)

CurrentDiscreteOutputRenameMap ==
    discrete_output_rename_loop(outputs_from_xml, CurrentInputNames[1],
                                CurrentInputNames[2], EmptyMap)

\* C4: the cached rename maps and input name sets always equal the
\* collision resolution of the current registries: re-populating a
\* registry invalidates what was cached.
C4_CachesFollowRegistries ==
    /\ IsCached(cache.input_names) => cache.input_names[1] = CurrentInputNames
    /\ IsCached(cache.output_rename_map) =>
           /\ CurrentOutputRenameMap.exc = "none"
           /\ cache.output_rename_map[1] = CurrentOutputRenameMap.val
    /\ IsCached(cache.discrete_output_rename_map) =>
           /\ CurrentDiscreteOutputRenameMap.exc = "none"
           /\ cache.discrete_output_rename_map[1] = CurrentDiscreteOutputRenameMap.val

\* Every input and every output has its one declaration, in order.
DeclaredOncePerEntry ==
    /\ Len(declared) = Len(inputs_from_xml) + Len(outputs_from_xml)
    /\ \A i \in 1..Len(inputs_from_xml) :
           LET name == inputs_from_xml[i][1]
               value == inputs_from_xml[i][2]
           IN declared[i] = AddCall(IF is_float(value) THEN "add_input"
                                    ELSE "add_discrete_input", PyStr(name), value, NoRef)
    /\ \A n \in Keys(outputs_from_xml) :
           LET value == Get(outputs_from_xml, n)
           IN /\ OutputCall(n).fn = (IF is_float(value) THEN "add_output"
                                     ELSE "add_discrete_output")
              /\ OutputCall(n).val = value

\* C5: one call of setup() declares every input and every output exactly
\* once, each output under the string name + "___out" when the name is in
\* the rename map of its kind and under its own name otherwise.
C5_SetupDeclaresEachOnceUnderString ==
    (SetupCompleted \/ (pc = "failed" /\ raised = "TypeError")) =>
        /\ DeclaredOncePerEntry
        /\ \A n \in Keys(outputs_from_xml) :
               LET renamed == IF is_float(Get(outputs_from_xml, n))
                              THEN n \in DOMAIN cache.output_rename_map[1]
                              ELSE n \in DOMAIN cache.discrete_output_rename_map[1]
               IN OutputCall(n).name
                      = PyStr(IF renamed THEN n \o <<"___out">> ELSE n)

\* The slot container and the slot setup() declared for output name n.
DeclaredSlotValue(n) ==
    IF OutputCall(n).fn = "add_output"
    THEN outputs[OutputCall(n).name]
    ELSE discrete_outputs[OutputCall(n).name]

\* C6: after setup() and a read phase given both containers, every result
\* entry naming a registered output is stored in the slot setup() declared
\* for it, every other slot keeps its value, and no input slot changes.
C6_ResultsReachDeclaredSlots ==
    (pc = "evaluated" /\ last_read.has_discrete) =>
        LET doc == last_read.doc
            names == {xpath_to_param(doc[i][1]) : i \in 1..Len(doc)}
        IN /\ \A i \in 1..Len(doc) :
                  xpath_to_param(doc[i][1]) \in Keys(outputs_from_xml)
                      => DeclaredSlotValue(xpath_to_param(doc[i][1])) = doc[i][2]
           /\ \A n \in Keys(outputs_from_xml) \ names :
                  DeclaredSlotValue(n) = Get(outputs_from_xml, n)
           /\ inputs = Slots(declared, "add_input")
           /\ discrete_inputs = Slots(declared, "add_discrete_input")
           /\ raised = "none"

(***************************************************************************)
(* Properties of xml_params_as_indep_vars and of the evaluation            *)
(***************************************************************************)
\* C7: whenever the lengths of params, values and (when given) aliases are
\* not all equal, or some param is not a key of inputs_from_xml, the call
\* raises ValueError (and nothing else) with nothing added to the group.
C7_BadArgumentsRaiseValueError ==
    indep_args.called =>
        LET a == indep_args
            unequal == \/ Len(a.params) # Len(a.values)
                       \/ a.aliases_given /\ Len(a.aliases) # Len(a.params)
            unknown == \E i \in 1..Len(a.params) : a.params[i] \notin Keys(inputs_from_xml)
        IN (unequal \/ unknown) => (raised = "ValueError" /\ group = <<>>)

\* The last evaluation returned to its caller without an exception.
NormalReturn == pc = "evaluated" /\ evaluations > 0 /\ raised = "none"

Events(ops) == {k \in DOMAIN trace : trace[k].op \in ops}

\* The named files the last evaluation or its tool wrote.
FilesWritten ==
    {trace[k].dst : k \in {e \in Events({"write_input_file", "execute", "linearize"}) :
                               trace[e].dst.kind \in {"in", "out", "partials"}}}

\* The files the external tool itself deleted during the last evaluation.
FilesRemovedByTool == {trace[k].src : k \in Events({"tool_removes"})}

\* The names generate_file_names returned to the last evaluation.
FilesGenerated ==
    IF FilesWritten = {} THEN {}
    ELSE {generated[Len(generated)].names[i] : i \in 1..3}

\* C8: with keep_files=True, two calls of generate_file_names made at
\* different clock instants return different input, output and partials
\* names, so no evaluation overwrites the retained files of an earlier one.
C8_FileNamesUniqueAcrossInstants ==
    keep_files =>
        \A i, j \in DOMAIN generated :
            generated[i].at # generated[j].at =>
                \A k \in 1..3 : generated[i].names[k] # generated[j].names[k]

\* The same, for a format that also carries the seconds.
C8_UniqueWithSeconds ==
    \A s, t \in Instants :
        s # t => strftime(s, <<"Y", "m", "d", "H", "M", "S", "f">>)
                 # strftime(t, <<"Y", "m", "d", "H", "M", "S", "f">>)

\* C9: with keep_files=False, after an evaluation returns normally none of
\* the input, output or partials files generated for it exists on disk, and
\* the OSError of deleting a file that is already gone never leaves the
\* evaluation; with keep_files=True every file written during the
\* evaluation (and not deleted by the external tool itself) still exists.
C9_GeneratedFilesRemovedOrKept ==
    /\ raised # "OSError"
    /\ NormalReturn /\ ~keep_files => FilesGenerated \cap disk = {}
    /\ NormalReturn /\ keep_files => (FilesWritten \ FilesRemovedByTool) \subseteq disk

\* compute_partials returned normally with keep_files=False although the
\* input file was already gone when it was to be deleted.
C9_Witness ==
    /\ NormalReturn
    /\ ~keep_files
    /\ FilesWritten # {}
    /\ FilesRemovedByTool # {}

\* An evaluation with keep_files=True that wrote an input and an output file.
C9_WitnessKept ==
    /\ NormalReturn
    /\ keep_files
    /\ \E f, g \in FilesWritten \cap disk : f.kind = "in" /\ g.kind = "out"

ExternalOps == {"execute", "execute_fast", "linearize"}

RoutingOps == {"read_outputs_file", "route_outputs", "read_partials_file"}

MergedIntoBase(k, doc) ==
    /\ trace[k].op = "xml_merge"
    /\ trace[k].dst = BaseFile
    /\ trace[k].doc = doc

\* C10: with base_file configured, every evaluation that returns normally
\* has merged the written input values into the base document before the
\* external operation, and the tool's result document into the base
\* document before the results are routed into the slots.
C10_BaseFileMergedAroundTool ==
    base_file /\ NormalReturn =>
        \A k \in Events(ExternalOps) :
            /\ inputs_from_xml # <<>> =>
                   \E j \in 1..(k - 1) : trace[j].op = "xml_merge" /\ trace[j].dst = BaseFile
            /\ \A r \in Events(RoutingOps) :
                   \E j \in (k + 1)..(r - 1) : MergedIntoBase(j, trace[k].doc)

\* The same, for the two file branches of compute() alone.
C10_FileBranchesMerge ==
    Events({"execute_fast", "linearize"}) = {} => C10_BaseFileMergedAroundTool

(***************************************************************************)
(* Properties of compute_partials                                          *)
(***************************************************************************)
\* The slot a pair of the partials document is meant for.
PartialsKey(of, wrt) ==
    LET out_param == xpath_to_param(of)
    IN <<IF out_param \in DOMAIN CurrentOutputRenameMap.val
         THEN CurrentOutputRenameMap.val[out_param][1] ELSE out_param,
         xpath_to_param(wrt)>>

\* The slots named by the pairs of a partials document.
PartialsKeys(doc) ==
    UNION {{PartialsKey(doc[i][1], doc[i][2][j][1]) : j \in DOMAIN doc[i][2]} : i \in DOMAIN doc}

\* The slots whose write raised during the last read_partials_file.
FailedWrites ==
    UNION {{trace[k].doc[i] : i \in DOMAIN trace[k].doc} :
              k \in Events({"partials_write_raises"})}

\* C11: when the write of one declared (of, wrt) pair raises in
\* read_partials_file, the exception does not propagate: the evaluation
\* returns normally and every other declared pair of the partials document
\* has received the document's value.
C11_PartialWriteFailureIsNotFatal ==
    \A k \in Events({"read_partials_file"}) :
        FailedWrites # {} =>
            /\ raised = "none"
            /\ \A key \in (PartialsKeys(trace[k].doc) \cap DOMAIN partials) \ FailedWrites :
                   partials[key] = Float(3)

\* The same, for exceptions that carry a message attribute.
C11_HoldsWithMessage ==
    raised # "AttributeError" => C11_PartialWriteFailureIsNotFatal

\* A failed write was logged and a later pair of the document was written.
C11_WitnessWithMessage ==
    /\ raised = "none"
    /\ FailedWrites # {}
    /\ \E k \in Events({"read_partials_file"}) :
           \E key \in (PartialsKeys(trace[k].doc) \cap DOMAIN partials) \ FailedWrites :
               partials[key] = Float(3)

\* The registry of inputs mixes continuous and discrete parameters.
MixedInputs ==
    /\ \E i \in DOMAIN inputs_from_xml : is_float(inputs_from_xml[i][2])
    /\ \E i \in DOMAIN inputs_from_xml : ~is_float(inputs_from_xml[i][2])

\* The document holds the current slot value of every registered input.
InputDocComplete(doc) ==
    \A i \in DOMAIN inputs_from_xml :
        LET param == inputs_from_xml[i][1]
            current == IF PyStr(param) \in DOMAIN inputs THEN inputs[PyStr(param)]
                       ELSE discrete_inputs[PyStr(param)]
        IN \E j \in DOMAIN doc :
               doc[j] = <<param_to_xpath(param), current>>

\* C12: in compute_partials with a non-empty partials specification and a
\* registry mixing continuous and discrete inputs, the input document with
\* the current value of every registered input is written, then linearize
\* is invoked, then the partials are read; the write phase does not fail.
C12_WriteLinearizeReadWithMixedInputs ==
    /\ pc = "evaluated"
    /\ partials_from_xml # <<>>
    /\ MixedInputs
    /\ Events({"write_input_file_raises", "linearize"}) # {}
    => \E i, j, k \in DOMAIN trace :
           /\ i < j /\ j < k
           /\ trace[i].op = "write_input_file"
           /\ InputDocComplete(trace[i].doc)
           /\ trace[j].op = "linearize"
           /\ trace[k].op = "read_partials_file"

\* The same order of steps, for registries of continuous inputs only.
C12_OrderWithContinuousInputs ==
    /\ pc = "evaluated"
    /\ partials_from_xml # <<>>
    /\ inputs_from_xml # <<>>
    /\ \A i \in DOMAIN inputs_from_xml : is_float(inputs_from_xml[i][2])
    /\ Events({"write_input_file_raises", "linearize"}) # {}
    => \E i, j, k \in DOMAIN trace :
           /\ i < j /\ j < k
           /\ trace[i].op = "write_input_file"
           /\ InputDocComplete(trace[i].doc)
           /\ trace[j].op = "linearize"
           /\ trace[k].op = "read_partials_file"

(***************************************************************************)
(* Properties of the declared names                                        *)
(***************************************************************************)
DeclaredInputs == {i \in DOMAIN declared : declared[i].fn \in {"add_input", "add_discrete_input"}}

DeclaredOutputs ==
    {i \in DOMAIN declared : declared[i].fn \in {"add_output", "add_discrete_output"}}

\* C13: when setup() completes, the names under which it declared outputs
\* are pairwise distinct and differ from every name under which it declared
\* an input, also when a registry holds a name ending in "___out".
C13_DeclaredNamesDistinct ==
    SetupCompleted =>
        \A i \in DeclaredOutputs :
            /\ \A j \in DeclaredOutputs : i # j => declared[i].name # declared[j].name
            /\ \A j \in DeclaredInputs : declared[i].name # declared[j].name

=============================================================================
